---- MODULE Spec2Model ----
(***************************************************************************)
(* Verification model of the crays-web Lightning wallet glue:              *)
(*   - zap dispatch (zapNote / zapStream) with its three payment rails,    *)
(*     src/src/lib/zap.ts                                                  *)
(*   - the Nostr-Wallet-Connect rail zapOverNWC, src/src/lib/zap.ts        *)
(*   - the BreezService connection life cycle,                             *)
(*     src/src/lib/breez/breezService.ts                                   *)
(* Every await of the TypeScript code is a point where another task of the *)
(* event loop may run, so every handler is cut into one action per await.  *)
(***************************************************************************)
EXTENDS Integers, Sequences, FiniteSets, TLC

\* ------------------------------------------------------------------ bounds
\* largest number of relays in a decoded NWC connection string
MaxRelays == 2
\* largest number of connect() calls of BreezService in flight at once
MaxCalls == 2
\* largest number of reconnection timers pending at once
MaxTimers == 2
\* the count of initBreezSDK calls saturates here
MaxInitCount == 2
\* getInvoiceStatus calls in flight at once
MaxPolls == 2
\* invoices generated while the modal is open
MaxInvoices == 2
\* callers of initBreezWasm
MaxWasmCallers == 3
\* init() runs counted
MaxInitRuns == 3

\* ------------------------------------------------------- program constants
\* BreezService.maxReconnectAttempts
maxReconnectAttempts == 5
\* BreezService.reconnectDelay, in milliseconds
reconnectDelay == 3000

Relays == 1..MaxRelays

VARIABLES
  \* ---- zap dispatch (zapNote / zapStream), one invocation at a time
  zpc,          \* position of the invocation
  zin,          \* parameters of the invocation that are read after the first await
  endpoint,     \* what the recipient's profile and LNURL endpoint offered ("none" before)
  signedEvent,  \* the signed zap request, "none" until signEvent resolved
  pr,           \* r2.pr, the invoice handed to the rails
  breezPaid,    \* what payWithBreez returned: "true" or "false", "none" before
  zres,         \* the value the routine returned, meaningful once zpc = "done"
  calls,        \* calls made by the invocation, in order, each <<callee, argument>>
  settled,      \* rails on which the invoice was actually paid
  lastZapError, \* the process-wide slot of zap.ts: its message, and whether the
                \* invocation in progress (or ended last) wrote it
  \* ---- zapOverNWC
  npc,          \* position inside zapOverNWC
  nrel,         \* nwcConfig.relays.length
  idx,          \* loop position in nwcConfig.relays
  opened,       \* relay i connected and pushed to relays[]
  closeCount,   \* number of close() calls on relay i
  promise,      \* state of promises[i]
  resolved,     \* the closure flag of relay task i
  timer,        \* the 30 s timer of relay task i is pending
  result,       \* the shared result flag
  raceWinner,   \* relay whose promise settles Promise.race; 0 while unsettled
  nwcRet,       \* value zapOverNWC returned, meaningful once it returned
  decided,      \* what resolved relay task i: whose answer, and its kind
  firstDef,     \* first definitive relay outcome of the call
  anyEvent,     \* some relay delivered a response event in this call
  \* ---- BreezService (the singleton)
  connected,         \* this.connected
  breezSDK,          \* this.breezSDK: "null" or "sdk"
  config,            \* this.config: "null" or "cfg"
  reconnectAttempts, \* this.reconnectAttempts
  reconnectTimer,    \* this.reconnectTimer: "null", or the handle of a timer that is
                     \* "pending" or has "fired"
  orphanTimers,      \* pending timers whose handle reconnectTimer no longer holds
  balance,           \* this.balance
  cpc,               \* position of each connect() call in flight
  dpc,               \* position of the disconnect() call
  initCalls,         \* initBreezSDK calls since the last disconnect() call
  listeners,         \* event names the emitter has a listener for
  terminal,          \* 'Max reconnection attempts reached' was emitted and no
                     \* connect() was called by the application since
  failures,          \* consecutive failed connect() calls
  lastDelay,         \* delay of the reconnection scheduled last, 0 after a success
  \* ---- one call of a BreezService method other than connect/disconnect
  op,                \* the call in flight or the call that ended last
  \* ---- mnemonic encryption
  epc,               \* "idle", "encrypted", "decrypted", or "failed" when encrypting threw
  mnemonic,          \* the mnemonic given to encryptMnemonic
  password,          \* the password given to both functions
  iterations,        \* options.iterations given to both functions
  encrypted,         \* the stored record: what encryptMnemonic returned, unless altered
  altered,           \* how the stored record was altered since: "no" or the field
  supplied,          \* the password given to decryptMnemonic
  decrypted,         \* what decryptMnemonic returned
  \* ---- ReceiveModal
  rm,                \* the state of the last render: mounted, invoice, isPolling, isGenerating
  rmNext,            \* the same state with the updates queued since that render applied
  intervals,         \* live interval timers created by the polling effect
  effectTimer,       \* timers the cleanup of the current polling effect will clear
  polls,             \* getInvoiceStatus calls in flight, per payment hash
  issued,            \* invoices created so far; the payment hash of the last one
  creating,          \* the createInvoice call of handleGenerate is in flight
  paidSeen,          \* a poll observed 'paid' since the invoice on display was set
  \* ---- wasmLoader
  breezWasmInitialized,
  breezWasmInstance, \* "null" or "module"
  wpc,               \* position of each initBreezWasm call
  initRuns,          \* runs of the module's init() since the last reset or failure
  \* ---- history of BreezService
  quiet,             \* a disconnect() call returned while no connect() call was in
                     \* flight, and the application has not called connect() since
  \* ---- SendModal
  sm,                \* the modal: open, step, invoiceOrAddress, amountSats
  balanceSats,       \* props.balanceSats
  payCalls           \* payInvoice calls of the modal in flight

zapVars == <<zpc, zin, endpoint, signedEvent, pr, breezPaid, zres, calls, settled, lastZapError>>
nwcVars == <<npc, nrel, idx, opened, closeCount, promise, resolved, timer, result,
             raceWinner, nwcRet, decided, firstDef, anyEvent>>
breezVars == <<connected, breezSDK, config, reconnectAttempts, reconnectTimer,
               orphanTimers, balance, cpc, dpc, initCalls, listeners, terminal,
               failures, lastDelay>>
opVars == <<op>>
cryptVars == <<epc, mnemonic, password, iterations, encrypted, altered, supplied, decrypted>>
rmVars == <<rm, rmNext, intervals, effectTimer, polls, issued, creating, paidSeen>>
wasmVars == <<breezWasmInitialized, breezWasmInstance, wpc, initRuns>>
ghostVars == <<quiet>>
smVars == <<sm, balanceSats, payCalls>>
vars == <<zapVars, nwcVars, breezVars, opVars, cryptVars, rmVars, wasmVars, ghostVars, smVars>>
Calls == 1..MaxCalls

\* ------------------------------------------------------------------ inputs
LudKinds == {"lud16", "lud06", "none"}
EndpointReplies == {"decode_throws", "fetch_throws", "not_ok", "json_throws",
                    "no_allowsNostr", "no_nostrPubkey", "no_callback", "ok"}
CallbackReplies == {"fetch_throws", "json_throws", "error_status", "pr_bolt11", "pr_text"}
EngineReplies == {"rejects", "success_true", "status_paid", "payment_object"}
EventKinds == {"success", "error", "other", "garbled"}
EventRefs == {"own", "other"}

Undecided == [ref |-> "none", kind |-> "none"]
NoResult == [success |-> FALSE, event |-> "none"]
Failure == [success |-> FALSE, event |-> "none"]


\* --------------------------------------------------------------- JS values
\* a string is a sequence of one-character strings; undefined is its own value
Undefined == [t |-> "undefined", s |-> <<>>]
\* a variable that has not been assigned yet
Unset == [t |-> "unset", s |-> <<>>]
Str(chars) == [t |-> "string", s |-> chars]
\* JavaScript truthiness of a value that is a string or undefined
Truthy(v) == v.t = "string" /\ v.s # <<>>

Digits == {"0", "1", "3", "9"}
LowerLetters == {"a", "b", "c", "l", "n", "r", "t", "u", "x"}
UpperLetters == {"A", "B", "C", "L", "N", "R", "T", "U", "X"}
LowerAlnum == Digits \cup LowerLetters

toLowerCase(c) ==
  CASE c = "A" -> "a" [] c = "B" -> "b" [] c = "C" -> "c" [] c = "L" -> "l"
    [] c = "N" -> "n" [] c = "R" -> "r" [] c = "T" -> "t" [] c = "U" -> "u"
    [] c = "X" -> "x" [] OTHER -> c

Lowered(chars) == [k \in 1..Len(chars) |-> toLowerCase(chars[k])]

RECURSIVE TrimLeft(_)
TrimLeft(chars) ==
  IF chars # <<>> /\ Head(chars) = " " THEN TrimLeft(Tail(chars)) ELSE chars

RECURSIVE TrimRight(_)
TrimRight(chars) ==
  IF chars # <<>> /\ chars[Len(chars)] = " "
    THEN TrimRight(SubSeq(chars, 1, Len(chars) - 1)) ELSE chars

Trim(chars) == TrimRight(TrimLeft(chars))

\* the regular expression ^prefix[class]+$
MatchPrefixed(chars, prefix, class) ==
  /\ Len(chars) > Len(prefix)
  /\ SubSeq(chars, 1, Len(prefix)) = prefix
  /\ \A k \in (Len(prefix) + 1)..Len(chars) : chars[k] \in class

Base58 == (Digits \ {"0"}) \cup (LowerLetters \ {"l"}) \cup UpperLetters

\* BreezService.parseInput: the type tag of the classification
parseInput(input) ==
  LET raw == Trim(input)
      lower == Lowered(raw)
  IN IF \E p \in {<<"l","n","b","c">>, <<"l","n","t","b">>, <<"l","n","b","c","r","t">>} :
          MatchPrefixed(lower, p, LowerAlnum)
       THEN "bolt11"
     ELSE IF MatchPrefixed(lower, <<"l","n","u","r","l">>, LowerAlnum)
       THEN "lnurl"
     ELSE IF \/ \E p \in {<<"b","c","1">>, <<"t","b","1">>, <<"b","c","r","t","1">>} :
                  MatchPrefixed(lower, p, LowerAlnum)
             \/ /\ raw # <<>> /\ raw[1] \in {"1", "3", "m", "n"}
                /\ Len(raw) - 1 \in 20..59
                /\ \A k \in 2..Len(raw) : raw[k] \in Base58
       THEN "onchain"
     ELSE "unknown"

\* the invoice strings an LNURL callback is modelled to answer with
InvoiceBolt11 == Str(<<"l", "n", "b", "c", "1", "x">>)
InvoiceText == Str(<<"x", "1">>)

\* ------------------------------------------------------- getZapEndpoint
\* what the recipient offers: no Lightning address, an endpoint that does not
\* resolve to a zap-enabled body, a zap-enabled body without callback, or a callback
EndpointClass(lud, reply) ==
  IF lud = "none" THEN "no_address"
  ELSE IF reply = "decode_throws" THEN (IF lud = "lud06" THEN "unresolved" ELSE "ok")
  ELSE IF reply \in {"fetch_throws", "not_ok", "json_throws", "no_allowsNostr", "no_nostrPubkey"}
    THEN "unresolved"
  ELSE IF reply = "no_callback" THEN "no_callback"
  ELSE "ok"

\* a getZapEndpoint that takes body.callback without looking at allowsNostr
getZapEndpoint_IgnoreNostr(lud, reply) ==
  IF lud = "none" THEN "null"
  ELSE IF lud = "lud06" /\ reply = "decode_throws" THEN "null"
  ELSE IF reply \in {"fetch_throws", "not_ok", "json_throws"} THEN "null"
  ELSE IF reply = "no_callback" THEN "undefined"
  ELSE "cb"

\* the callback getZapEndpoint returns: "null", "undefined" or "cb"
getZapEndpoint(lud, reply) ==
  IF lud = "none" THEN "null"
  ELSE IF lud = "lud06" /\ reply = "decode_throws" THEN "null"
  ELSE IF reply = "fetch_throws" THEN "null"
  ELSE IF reply = "not_ok" THEN "null"
  ELSE IF reply = "json_throws" THEN "null"
  ELSE IF reply \in {"no_allowsNostr", "no_nostrPubkey"} THEN "null"
  ELSE IF reply = "no_callback" THEN "undefined"
  ELSE "cb"

\* ------------------------------------------------ BreezService.payInvoice
ServicePayInvoice_NoParse(conn, invoice, eng) ==
  IF ~conn THEN [threw |-> TRUE, res |-> "none", engine |-> "not_called"]
  ELSE IF ~Truthy(invoice) THEN [threw |-> TRUE, res |-> "none", engine |-> "not_called"]
  ELSE IF eng = "rejects" THEN [threw |-> TRUE, res |-> "none", engine |-> "rejected"]
  ELSE [threw |-> FALSE, res |-> eng, engine |-> "resolved"]

\* outcome of BreezService.payInvoice(invoice) on a service whose connected
\* flag is conn, when the engine answers eng: threw, the value returned and
\* whether the engine's payInvoice was called and resolved
ServicePayInvoice(conn, invoice, eng) ==
  IF ~conn THEN [threw |-> TRUE, res |-> "none", engine |-> "not_called"]
  ELSE IF ~Truthy(invoice) THEN [threw |-> TRUE, res |-> "none", engine |-> "not_called"]
  ELSE IF parseInput(invoice.s) # "bolt11"
    THEN [threw |-> TRUE, res |-> "none", engine |-> "not_called"]
  ELSE IF eng = "rejects" THEN [threw |-> TRUE, res |-> "none", engine |-> "rejected"]
  ELSE [threw |-> FALSE, res |-> eng, engine |-> "resolved"]

\* payWithBreez: true only for a result carrying success === true or status === 'paid'
payWithBreez(out) ==
  IF out.threw THEN FALSE
  ELSE out.res \in {"success_true", "status_paid"}

\* ------------------------------------------------------------ lastZapError
\* export let lastZapError = ""
NoZapError == [msg |-> "", fresh |-> FALSE]
\* an assignment to the slot
Written(msg) == [msg |-> msg, fresh |-> TRUE]
\* the slot as the next invocation finds it: nothing resets it
LeftOver(slot) == [slot EXCEPT !.fresh = FALSE]

\* ------------------------------------------------------------ NWC at rest
NwcIdle ==
  /\ npc = "idle" /\ nrel = 0 /\ idx = 0
  /\ opened = [i \in Relays |-> FALSE]
  /\ closeCount = [i \in Relays |-> 0]
  /\ promise = [i \in Relays |-> "none"]
  /\ resolved = [i \in Relays |-> FALSE]
  /\ timer = [i \in Relays |-> FALSE]
  /\ result = FALSE
  /\ raceWinner = 0
  /\ nwcRet = FALSE
  /\ decided = [i \in Relays |-> Undecided]
  /\ firstDef = "none"
  /\ anyEvent = FALSE

ZapInit ==
  /\ zpc = "idle"
  /\ zin = [useBreez |-> FALSE, nwc |-> FALSE]
  /\ endpoint = "none"
  /\ signedEvent = "none"
  /\ pr = Unset
  /\ breezPaid = "none"
  /\ zres = NoResult
  /\ calls = <<>>
  /\ settled = {}
  /\ lastZapError = NoZapError
  /\ NwcIdle

\* BreezService after construction
BreezInit ==
  /\ connected = FALSE
  /\ breezSDK = "null"
  /\ config = "null"
  /\ reconnectAttempts = 0
  /\ reconnectTimer = "null"
  /\ orphanTimers = 0
  /\ balance = 0
  /\ cpc = [c \in Calls |-> "free"]
  /\ dpc = "idle"
  /\ initCalls = 0
  /\ listeners = {}
  /\ terminal = FALSE
  /\ failures = 0
  /\ lastDelay = 0
  /\ quiet = FALSE

\* ------------------------------------------------- mnemonic encryption
\* encryptMnemonic / decryptMnemonic. Strings are sequences of UTF-16 code
\* units, byte arrays are sequences over 0..255, base64 text is a sequence of
\* alphabet indices 0..63 with 64 standing for the padding character '='.
\* PBKDF2 and XChaCha20-Poly1305 are replaced by small functions with the same
\* interface: a key that depends on password, salt and iteration count, a
\* keystream that depends on key and nonce, and a tag over the plaintext.
saltLength == 16
nonceLength == 24
defaultIterations == 100000

\* code units used: space, 'a', e-acute, a lone surrogate, U+FEFF
CodeUnits == {32, 97, 233, 55296, 65279}
Mnemonics ==
  {<<>>, <<32>>, <<97>>, <<97, 32, 97>>, <<233, 97>>, <<32, 97, 32>>,
   <<65279, 97>>, <<97, 65279>>, <<55296, 97>>}
\* the last one is "a" followed by U+0000
Passwords == {<<>>, <<97>>, <<97, 97>>, <<97, 0>>}
Iterations == {1, defaultIterations}
RandomFill == {0, 255}

\* randomBytes(n)
randomBytes(n, fill) == [k \in 1..n |-> fill]

RECURSIVE SumSeq(_)
SumSeq(q) == IF q = <<>> THEN 0 ELSE Head(q) + SumSeq(Tail(q))

\* String.prototype.trim: white space includes U+FEFF
WhiteSpace == {32, 65279}
RECURSIVE trimStart(_)
trimStart(units) ==
  IF units # <<>> /\ Head(units) \in WhiteSpace THEN trimStart(Tail(units)) ELSE units
RECURSIVE trimEnd(_)
trimEnd(units) ==
  IF units # <<>> /\ units[Len(units)] \in WhiteSpace
    THEN trimEnd(SubSeq(units, 1, Len(units) - 1)) ELSE units
trim(units) == trimEnd(trimStart(units))

\* TextEncoder.encode of one code unit: UTF-8, a lone surrogate becomes U+FFFD
encodeUnit(c) ==
  IF c < 128 THEN <<c>>
  ELSE IF c < 2048 THEN <<192 + (c \div 64), 128 + (c % 64)>>
  ELSE IF c \in 55296..57343 THEN <<239, 191, 189>>
  ELSE <<224 + (c \div 4096), 128 + ((c \div 64) % 64), 128 + (c % 64)>>

RECURSIVE TextEncode(_)
TextEncode(units) ==
  IF units = <<>> THEN <<>> ELSE encodeUnit(Head(units)) \o TextEncode(Tail(units))

\* UTF-8 decoding of well-formed input of up to three bytes per character
RECURSIVE utf8Units(_)
utf8Units(bytes) ==
  IF bytes = <<>> THEN <<>>
  ELSE IF bytes[1] < 128 THEN <<bytes[1]>> \o utf8Units(Tail(bytes))
  ELSE IF bytes[1] < 224
    THEN <<(bytes[1] - 192) * 64 + (bytes[2] - 128)>> \o utf8Units(SubSeq(bytes, 3, Len(bytes)))
  ELSE <<(bytes[1] - 224) * 4096 + (bytes[2] - 128) * 64 + (bytes[3] - 128)>>
         \o utf8Units(SubSeq(bytes, 4, Len(bytes)))

\* new TextDecoder().decode: ignoreBOM is false, a leading U+FEFF is dropped
TextDecode(bytes) ==
  LET units == utf8Units(bytes)
  IN IF units # <<>> /\ units[1] = 65279 THEN Tail(units) ELSE units

\* Buffer.from(bytes).toString('base64')
RECURSIVE toBase64(_)
toBase64(b) ==
  IF b = <<>> THEN <<>>
  ELSE IF Len(b) = 1 THEN <<b[1] \div 4, (b[1] % 4) * 16, 64, 64>>
  ELSE IF Len(b) = 2
    THEN <<b[1] \div 4, (b[1] % 4) * 16 + (b[2] \div 16), (b[2] % 16) * 4, 64>>
  ELSE <<b[1] \div 4, (b[1] % 4) * 16 + (b[2] \div 16), (b[2] % 16) * 4 + (b[3] \div 64),
         b[3] % 64>> \o toBase64(SubSeq(b, 4, Len(b)))

\* Buffer.from(text, 'base64') of padded base64 text
RECURSIVE fromBase64(_)
fromBase64(t) ==
  IF Len(t) < 4 THEN <<>>
  ELSE IF t[3] = 64 THEN <<t[1] * 4 + (t[2] \div 16)>>
  ELSE IF t[4] = 64 THEN <<t[1] * 4 + (t[2] \div 16), (t[2] % 16) * 16 + (t[3] \div 4)>>
  ELSE <<t[1] * 4 + (t[2] \div 16), (t[2] % 16) * 16 + (t[3] \div 4), (t[3] % 4) * 64 + t[4]>>
         \o fromBase64(SubSeq(t, 5, Len(t)))

\* sum of the elements weighted by position
RECURSIVE WSum(_)
WSum(q) == IF q = <<>> THEN 0 ELSE Len(q) * q[Len(q)] + WSum(SubSeq(q, 1, Len(q) - 1))

\* HMAC key block: the key bytes padded with zero bytes up to the block length
\* of the hash, so zero bytes at the end of the key make no difference (keys
\* longer than one block are outside the inputs)
RECURSIVE hmacBlock(_)
hmacBlock(key) ==
  IF key # <<>> /\ key[Len(key)] = 0 THEN hmacBlock(SubSeq(key, 1, Len(key) - 1)) ELSE key

\* deriveKey: pbkdf2(sha256, password, salt, {c: iterations, dkLen: 32})
deriveKey(pass, salt, c) ==
  (WSum(hmacBlock(TextEncode(pass))) * 31 + SumSeq(salt) * 7 + c) % 251

keystream(key, nonce) == (key + SumSeq(nonce)) % 256
\* the Poly1305 tag: keyed by key and nonce, taken over the ciphertext
tagOf(key, nonce, body) == (WSum(body) + key * 5 + SumSeq(nonce) + 1) % 256

\* xchacha20poly1305(key, nonce).encrypt: the ciphertext followed by the tag
cipherEncrypt(key, nonce, plain) ==
  LET body == [i \in 1..Len(plain) |-> (plain[i] + keystream(key, nonce) + i) % 256]
  IN Append(body, tagOf(key, nonce, body))

\* xchacha20poly1305(key, nonce).decrypt: throws 'invalid tag' unless the tag verifies
cipherDecrypt(key, nonce, data) ==
  IF data = <<>> THEN [threw |-> TRUE, plain |-> <<>>]
  ELSE LET n == Len(data) - 1
           body == SubSeq(data, 1, n)
       IN IF data[n + 1] = tagOf(key, nonce, body)
            THEN [threw |-> FALSE,
                  plain |-> [i \in 1..n |-> (body[i] + 512 - keystream(key, nonce) - i) % 256]]
            ELSE [threw |-> TRUE, plain |-> <<>>]

NoData == [threw |-> FALSE, ciphertext |-> <<>>, nonce |-> <<>>, salt |-> <<>>]
Thrown == [threw |-> TRUE, ciphertext |-> <<>>, nonce |-> <<>>, salt |-> <<>>]
NoText == [threw |-> FALSE, text |-> <<>>, message |-> ""]
Throws(msg) == [threw |-> TRUE, text |-> <<>>, message |-> msg]

encryptMnemonic(m, pass, c, salt, nonce) ==
  IF m = <<>> \/ trim(m) = <<>> THEN Thrown
  ELSE IF pass = <<>> THEN Thrown
  ELSE [threw |-> FALSE,
        ciphertext |-> toBase64(cipherEncrypt(deriveKey(pass, salt, c), nonce, TextEncode(m))),
        nonce |-> toBase64(nonce),
        salt |-> toBase64(salt)]

\* error.message.includes('auth') || error.message.includes('tag')
MentionsAuthOrTag(msg) == msg = "invalid tag"
GenericMessage == "Decryption failed: incorrect password or corrupted data"
\* the catch block of decryptMnemonic
Rethrown(msg) ==
  IF MentionsAuthOrTag(msg) THEN Throws(GenericMessage)
  ELSE IF msg = "Invalid nonce length: expected 24 bytes for XChaCha20"
    THEN Throws("Decryption failed: Invalid nonce length: expected 24 bytes for XChaCha20")
  ELSE Throws("Decryption failed: Unknown error")

decryptMnemonic(data, pass, c) ==
  IF data.ciphertext = <<>> \/ data.nonce = <<>> \/ data.salt = <<>>
    THEN Throws("Invalid encrypted data: missing required fields")
  ELSE IF pass = <<>> THEN Throws("Password cannot be empty")
  ELSE LET nonce == fromBase64(data.nonce)
           salt == fromBase64(data.salt)
           out == cipherDecrypt(deriveKey(pass, salt, c), nonce, fromBase64(data.ciphertext))
       IN IF Len(nonce) # nonceLength
            THEN Rethrown("Invalid nonce length: expected 24 bytes for XChaCha20")
          ELSE IF out.threw THEN Rethrown("invalid tag")
          ELSE [threw |-> FALSE, text |-> TextDecode(out.plain), message |-> ""]

CryptInit ==
  /\ epc = "idle"
  /\ mnemonic = <<>>
  /\ password = <<>>
  /\ iterations = defaultIterations
  /\ encrypted = NoData
  /\ altered = "no"
  /\ supplied = <<>>
  /\ decrypted = NoText


\* no method call made yet
NoOp ==
  [name |-> "none", pc |-> "idle", arg |-> "none", engine |-> <<>>, emitted |-> <<>>,
   outcome |-> "none", value |-> "none", conn |-> FALSE]

OpInit == op = NoOp

\* ReceiveModal as first rendered: the useState initial values, no effect timer
\* invoice is the status of the invoice held ("null" for none), hash its paymentHash
Shown(inv, hash, polling, generating) ==
  [invoice |-> inv, hash |-> hash, isPolling |-> polling, isGenerating |-> generating]
Hashes == 1..MaxInvoices
ReceiveInit ==
  /\ rm = [mounted |-> TRUE, view |-> Shown("null", 0, FALSE, FALSE)]
  /\ rmNext = Shown("null", 0, FALSE, FALSE)
  /\ intervals = 0
  /\ effectTimer = 0
  /\ polls = [h \in Hashes |-> 0]
  /\ issued = 0
  /\ creating = FALSE
  /\ paidSeen = FALSE

\* wasmLoader as loaded: the module-level lets
WasmCallers == 1..MaxWasmCallers
WasmInit ==
  /\ breezWasmInitialized = FALSE
  /\ breezWasmInstance = "null"
  /\ wpc = [c \in WasmCallers |-> "idle"]
  /\ initRuns = 0

\* SendModal as created: the createSignal initial values. amountSats is <<>>
\* for undefined and <<n>> for the number n
NoAmount == <<>>
BalanceValues == {3, 10, 30}
SendInit ==
  /\ sm = [open |-> TRUE, step |-> "form", invoiceOrAddress |-> <<>>, amountSats |-> NoAmount]
  /\ balanceSats \in BalanceValues
  /\ payCalls = 0

Init == ZapInit /\ BreezInit /\ OpInit /\ CryptInit /\ ReceiveInit /\ WasmInit /\ SendInit


\* ------------------------------------------------------------ zap dispatch
Call(fn, arg) == [fn |-> fn, arg |-> arg]
RailCalls == {"payWithBreez", "zapOverNWC", "enableWebLn", "sendPayment"}

NwcReset ==
  /\ npc' = "idle" /\ nrel' = 0 /\ idx' = 0
  /\ opened' = [i \in Relays |-> FALSE]
  /\ closeCount' = [i \in Relays |-> 0]
  /\ promise' = [i \in Relays |-> "none"]
  /\ resolved' = [i \in Relays |-> FALSE]
  /\ timer' = [i \in Relays |-> FALSE]
  /\ result' = FALSE
  /\ raceWinner' = 0
  /\ nwcRet' = FALSE
  /\ decided' = [i \in Relays |-> Undecided]
  /\ firstDef' = "none"
  /\ anyEvent' = FALSE

\* the routine returns ret
ZapReturn(ret) ==
  /\ zpc' = "done"
  /\ zres' = ret

\* a dispatch that goes to WebLN although an NWC credential was supplied
FirstRail_SkipsNwc(in) ==
  IF in.useBreez THEN "breez" ELSE "enableWebLn"

\* the stage zapNote / zapStream enters once pr is known
FirstRail(in) ==
  IF in.useBreez THEN "breez" ELSE IF in.nwc THEN "nwc" ELSE "enableWebLn"

\* a dispatch that goes on to the next rail although payWithBreez returned true
AfterBreez_NoReturn(paid, in) ==
  IF in.nwc THEN "nwc" ELSE "enableWebLn"

\* the stage entered when payWithBreez returned paid
AfterBreez(paid, in) ==
  IF paid THEN "return" ELSE IF in.nwc THEN "nwc" ELSE "enableWebLn"

\* a dispatch that falls through to WebLN when zapOverNWC returned false
AfterNWC_FallThrough(success) == IF success THEN "return" ELSE "enableWebLn"

\* the stage entered when zapOverNWC returned success
AfterNWC(success) == "return"

\* enter a stage: return ret, or call the stage's rail with the invoice
ZapGoto(stage, invoice, ret) ==
  CASE stage = "return" ->
         /\ ZapReturn(ret)
         /\ UNCHANGED <<calls, npc>>
    [] stage = "breez" ->
         /\ zpc' = "breez"
         /\ calls' = Append(calls, Call("payWithBreez", invoice))
         /\ UNCHANGED <<zres, npc>>
    [] stage = "nwc" ->
         /\ zpc' = "nwc"
         /\ npc' = "decrypt"
         /\ calls' = Append(calls, Call("zapOverNWC", invoice))
         /\ UNCHANGED zres
    [] stage = "enableWebLn" ->
         /\ zpc' = "enableWebLn"
         /\ calls' = Append(calls, Call("enableWebLn", Undefined))
         /\ UNCHANGED <<zres, npc>>

\* zapNote / zapStream up to the first await: the guards on sender and target.
\* The two routines differ only in the tags of the zap request they sign; from
\* the signing on their bodies are the same statements, so one set of actions
\* models both.
ZapStart ==
  /\ zpc \in {"idle", "done"}
  /\ \E sender \in BOOLEAN, target \in BOOLEAN, useBreez \in BOOLEAN, nwc \in BOOLEAN :
       /\ zin' = [useBreez |-> useBreez, nwc |-> nwc]
       /\ IF ~sender \/ ~target
            THEN ZapReturn(Failure)
            ELSE zpc' = "endpoint" /\ zres' = NoResult
  /\ endpoint' = "none"
  /\ signedEvent' = "none"
  /\ pr' = Unset
  /\ breezPaid' = "none"
  /\ calls' = <<>>
  /\ settled' = {}
  /\ NwcReset
  /\ lastZapError' = LeftOver(lastZapError)
  /\ UNCHANGED <<breezVars, opVars, cryptVars, rmVars, wasmVars, ghostVars, smVars>>

\* getZapEndpoint resolved: no callback ends the routine
ZapEndpoint ==
  /\ zpc = "endpoint"
  /\ \E lud \in LudKinds, reply \in EndpointReplies :
       LET callback == getZapEndpoint(lud, reply)
       IN /\ endpoint' = EndpointClass(lud, reply)
          /\ IF callback # "cb"
               THEN ZapReturn(Failure)
               ELSE zpc' = "sign" /\ UNCHANGED zres
  /\ UNCHANGED <<zin, signedEvent, pr, breezPaid, calls, settled, lastZapError, nwcVars>>
  /\ UNCHANGED <<breezVars, opVars, cryptVars, rmVars, wasmVars, ghostVars, smVars>>

\* signEvent(zapReq) settled; then the callback fetch is issued
ZapSign ==
  /\ zpc = "sign"
  /\ \E ok \in BOOLEAN :
       IF ok
         THEN /\ signedEvent' = "signed"
              /\ zpc' = "fetch"
              /\ calls' = Append(calls, Call("fetchCallback", Undefined))
              /\ UNCHANGED zres
         ELSE /\ ZapReturn(Failure)
              /\ UNCHANGED <<signedEvent, calls>>
  /\ UNCHANGED <<zin, endpoint, pr, breezPaid, settled, lastZapError, nwcVars>>
  /\ UNCHANGED <<breezVars, opVars, cryptVars, rmVars, wasmVars, ghostVars, smVars>>

\* r2.pr of the body the callback answered with
InvoiceOf(reply) ==
  CASE reply = "pr_bolt11" -> InvoiceBolt11
    [] reply = "pr_text" -> InvoiceText
    [] OTHER -> Undefined

\* the callback fetch and its json() settled; pr = r2.pr and the first rail is called
ZapFetch ==
  /\ zpc = "fetch"
  /\ \E reply \in CallbackReplies :
       IF reply \in {"fetch_throws", "json_throws"}
         THEN /\ ZapReturn(Failure)
              /\ UNCHANGED <<pr, calls, npc>>
         ELSE /\ pr' = InvoiceOf(reply)
              /\ ZapGoto(FirstRail(zin), pr', Failure)
  /\ UNCHANGED <<zin, endpoint, signedEvent, breezPaid, settled, lastZapError>>
  /\ UNCHANGED <<nrel, idx, opened, closeCount, promise, resolved, timer, result,
                 raceWinner, nwcRet, decided, firstDef, anyEvent>>
  /\ UNCHANGED <<breezVars, opVars, cryptVars, rmVars, wasmVars, ghostVars, smVars>>

\* payWithBreez(pr) returned: success ends the routine, otherwise the next rail
ZapBreez ==
  /\ zpc = "breez"
  /\ \E conn \in BOOLEAN, eng \in EngineReplies :
       LET out == ServicePayInvoice(conn, pr, eng)
           paid == payWithBreez(out)
       IN /\ breezPaid' = IF paid THEN "true" ELSE "false"
          /\ settled' = IF out.engine = "resolved" THEN settled \cup {"breez"} ELSE settled
          /\ lastZapError' = IF out.threw THEN Written("Failed to pay invoice") ELSE lastZapError
          /\ ZapGoto(AfterBreez(paid, zin), pr, [success |-> TRUE, event |-> signedEvent])
  /\ UNCHANGED <<zin, endpoint, signedEvent, pr>>
  /\ UNCHANGED <<nrel, idx, opened, closeCount, promise, resolved, timer, result,
                 raceWinner, nwcRet, decided, firstDef, anyEvent>>
  /\ UNCHANGED <<breezVars, opVars, cryptVars, rmVars, wasmVars, ghostVars, smVars>>

\* enableWebLn() settled; then sendPayment(pr) is called
ZapEnableWebLn ==
  /\ zpc = "enableWebLn"
  /\ \E ok \in BOOLEAN :
       IF ok
         THEN /\ zpc' = "sendPayment"
              /\ calls' = Append(calls, Call("sendPayment", pr))
              /\ UNCHANGED zres
         ELSE /\ ZapReturn(Failure)
              /\ UNCHANGED calls
  /\ UNCHANGED <<zin, endpoint, signedEvent, pr, breezPaid, settled, lastZapError, nwcVars>>
  /\ UNCHANGED <<breezVars, opVars, cryptVars, rmVars, wasmVars, ghostVars, smVars>>

\* sendPayment(pr) settled
ZapSendPayment ==
  /\ zpc = "sendPayment"
  /\ \E ok \in BOOLEAN :
       IF ok
         THEN /\ settled' = settled \cup {"webln"}
              /\ ZapReturn([success |-> TRUE, event |-> signedEvent])
         ELSE /\ ZapReturn(Failure)
              /\ UNCHANGED settled
  /\ UNCHANGED <<zin, endpoint, signedEvent, pr, breezPaid, calls, lastZapError, nwcVars>>
  /\ UNCHANGED <<breezVars, opVars, cryptVars, rmVars, wasmVars, ghostVars, smVars>>

\* ------------------------------------------------------------- zapOverNWC
NwcRunning == npc \in {"connect", "publish", "race"}
Settled(p) == p \in {"true", "false", "rejected"}
Subscribed(i) == promise[i] \in {"pending", "true", "false"}

\* the promise Promise.race adopts among those settled when it is called
FirstSettled(ps) ==
  IF \E i \in Relays : Settled(ps[i])
    THEN CHOOSE i \in Relays : Settled(ps[i]) /\ \A j \in Relays : Settled(ps[j]) => i <= j
    ELSE 0

\* a promise of relay i settles: it wins the race when the race is on and open
WinnerAfter(i) == IF npc = "race" /\ raceWinner = 0 THEN i ELSE raceWinner

\* a cleanup that closes the first relay only
FinallyClose_FirstOnly(count, open) ==
  [i \in Relays |-> IF open[i] /\ i = 1 THEN count[i] + 1 ELSE count[i]]

\* the finally block: relays.forEach(r => r.close())
FinallyClose(count, open) ==
  [i \in Relays |-> IF open[i] THEN count[i] + 1 ELSE count[i]]

\* the catch block of zapOverNWC followed by finally
NwcCatch ==
  /\ lastZapError' = Written("zapOverNWC exception")
  /\ nwcRet' = FALSE
  /\ closeCount' = FinallyClose(closeCount, opened)
  /\ npc' = "done"

\* decrypt, decodeNWCUri, makeNwcRequestEvent and signEvent settled
NwcDecrypt ==
  /\ zpc = "nwc" /\ npc = "decrypt"
  /\ \E ok \in BOOLEAN, n \in 0..MaxRelays :
       IF ok
         THEN /\ nrel' = n
              /\ idx' = 1
              /\ npc' = IF n = 0 THEN "race" ELSE "connect"
              /\ UNCHANGED <<lastZapError, nwcRet, closeCount>>
         ELSE /\ NwcCatch
              /\ UNCHANGED <<nrel, idx>>
  /\ UNCHANGED <<zpc, zin, endpoint, signedEvent, pr, breezPaid, zres, calls, settled>>
  /\ UNCHANGED <<opened, promise, resolved, timer, result, raceWinner, decided,
                 firstDef, anyEvent>>
  /\ UNCHANGED <<breezVars, opVars, cryptVars, rmVars, wasmVars, ghostVars, smVars>>

\* relay.connect() of relay idx settled; on success the relay is pushed, its
\* task is created (subscription, timer) and relay.publish(signed) is called
NwcConnect ==
  /\ zpc = "nwc" /\ npc = "connect"
  /\ \E ok \in BOOLEAN, subThrows \in BOOLEAN :
       IF ok
         THEN /\ opened' = [opened EXCEPT ![idx] = TRUE]
              /\ promise' = [promise EXCEPT ![idx] = IF subThrows THEN "rejected" ELSE "pending"]
              /\ timer' = [timer EXCEPT ![idx] = ~subThrows]
              /\ npc' = "publish"
              /\ UNCHANGED <<lastZapError, nwcRet, closeCount>>
         ELSE /\ NwcCatch
              /\ UNCHANGED <<opened, promise, timer>>
  /\ UNCHANGED <<zpc, zin, endpoint, signedEvent, pr, breezPaid, zres, calls, settled>>
  /\ UNCHANGED <<nrel, idx, resolved, result, raceWinner, decided, firstDef, anyEvent>>
  /\ UNCHANGED <<breezVars, opVars, cryptVars, rmVars, wasmVars, ghostVars, smVars>>

\* relay.publish(signed) of relay idx settled; after the last relay the
\* routine awaits Promise.race(promises)
NwcPublish ==
  /\ zpc = "nwc" /\ npc = "publish"
  /\ \E ok \in BOOLEAN :
       IF ok
         THEN /\ IF idx < nrel
                   THEN idx' = idx + 1 /\ npc' = "connect" /\ UNCHANGED raceWinner
                   ELSE npc' = "race" /\ raceWinner' = FirstSettled(promise) /\ UNCHANGED idx
              /\ UNCHANGED <<lastZapError, nwcRet, closeCount>>
         ELSE /\ NwcCatch
              /\ UNCHANGED <<idx, raceWinner>>
  /\ UNCHANGED <<zpc, zin, endpoint, signedEvent, pr, breezPaid, zres, calls, settled>>
  /\ UNCHANGED <<nrel, opened, promise, resolved, timer, result, decided, firstDef, anyEvent>>
  /\ UNCHANGED <<breezVars, opVars, cryptVars, rmVars, wasmVars, ghostVars, smVars>>

\* the sub.on('event') handler of relay i, from the decrypted content on
NwcEvent(i) ==
  /\ zpc = "nwc" /\ NwcRunning
  /\ Subscribed(i)
  /\ \E kind \in EventKinds, ref \in EventRefs :
       LET accept == kind # "other" /\ ~resolved[i]
       IN /\ anyEvent' = TRUE
          /\ settled' = IF kind = "success" /\ ref = "own" THEN settled \cup {"nwc"} ELSE settled
          /\ IF accept
               THEN /\ resolved' = [resolved EXCEPT ![i] = TRUE]
                    /\ promise' = [promise EXCEPT ![i] = IF kind = "success" THEN "true" ELSE "false"]
                    /\ result' = IF kind = "success" THEN TRUE ELSE result
                    /\ lastZapError' = CASE kind = "error" -> Written("NWC error")
                                         [] kind = "garbled" -> Written("NWC event exception")
                                         [] OTHER -> lastZapError
                    /\ decided' = [decided EXCEPT ![i] = [ref |-> ref, kind |-> kind]]
                    /\ firstDef' = IF firstDef = "none" /\ kind \in {"success", "error"}
                                     THEN kind ELSE firstDef
                    /\ raceWinner' = WinnerAfter(i)
               ELSE UNCHANGED <<resolved, promise, result, lastZapError, decided,
                                firstDef, raceWinner>>
  /\ UNCHANGED <<zpc, zin, endpoint, signedEvent, pr, breezPaid, zres, calls>>
  /\ UNCHANGED <<npc, nrel, idx, opened, closeCount, timer, nwcRet>>
  /\ UNCHANGED <<breezVars, opVars, cryptVars, rmVars, wasmVars, ghostVars, smVars>>

\* a timer callback that never resolves the relay task
TimeoutResolves_Never(res) == FALSE

\* the guard of the timer callback: if (!resolved)
TimeoutResolves(res) == ~res

\* the 30 s timer of relay task i fires
NwcTimeout(i) ==
  /\ zpc = "nwc" /\ NwcRunning
  /\ timer[i]
  /\ timer' = [timer EXCEPT ![i] = FALSE]
  /\ IF TimeoutResolves(resolved[i])
       THEN /\ resolved' = [resolved EXCEPT ![i] = TRUE]
            /\ promise' = [promise EXCEPT ![i] = "false"]
            /\ decided' = [decided EXCEPT ![i] = [ref |-> "timer", kind |-> "timeout"]]
            /\ raceWinner' = WinnerAfter(i)
       ELSE UNCHANGED <<resolved, promise, decided, raceWinner>>
  /\ UNCHANGED zapVars
  /\ UNCHANGED <<npc, nrel, idx, opened, closeCount, result, nwcRet, firstDef, anyEvent>>
  /\ UNCHANGED <<breezVars, opVars, cryptVars, rmVars, wasmVars, ghostVars, smVars>>

\* Promise.race settled: return result, or catch when the winner rejected
NwcRace ==
  /\ zpc = "nwc" /\ npc = "race"
  /\ raceWinner # 0
  /\ IF promise[raceWinner] = "rejected"
       THEN NwcCatch
       ELSE /\ nwcRet' = result
            /\ closeCount' = FinallyClose(closeCount, opened)
            /\ npc' = "done"
            /\ UNCHANGED lastZapError
  /\ UNCHANGED <<zpc, zin, endpoint, signedEvent, pr, breezPaid, zres, calls, settled>>
  /\ UNCHANGED <<nrel, idx, opened, promise, resolved, timer, result, raceWinner,
                 decided, firstDef, anyEvent>>
  /\ UNCHANGED <<breezVars, opVars, cryptVars, rmVars, wasmVars, ghostVars, smVars>>

\* zapOverNWC returned to zapNote / zapStream
ZapNwcReturned ==
  /\ zpc = "nwc" /\ npc = "done"
  /\ npc' = "returned"
  /\ IF AfterNWC(nwcRet) = "return"
       THEN /\ ZapReturn([success |-> nwcRet, event |-> signedEvent])
            /\ UNCHANGED calls
       ELSE /\ zpc' = "enableWebLn"
            /\ calls' = Append(calls, Call("enableWebLn", Undefined))
            /\ UNCHANGED zres
  /\ UNCHANGED <<zin, endpoint, signedEvent, pr, breezPaid, settled, lastZapError>>
  /\ UNCHANGED <<nrel, idx, opened, closeCount, promise, resolved, timer, result,
                 raceWinner, nwcRet, decided, firstDef, anyEvent>>
  /\ UNCHANGED <<breezVars, opVars, cryptVars, rmVars, wasmVars, ghostVars, smVars>>

\* ------------------------------------------------------------ BreezService
Balances == {0, 1}
Min(a, b) == IF a < b THEN a ELSE b

\* events the application may listen to on the service
ListenerEvents == {"error", "balance_updated"}

\* emit('error', ...) of the events module throws when the emitter has no
\* listener for 'error'; every other emit just returns
EmitErrorThrows == "error" \notin listeners

TimersPending == orphanTimers + (IF reconnectTimer = "pending" THEN 1 ELSE 0)
InFlight == Cardinality({c \in Calls : cpc[c] # "free"})

\* delay of the reconnection scheduled after the k-th consecutive failure
Delay(k) == reconnectDelay * k

\* the application registers a listener: service.on(ev, ...)
On(ev) ==
  /\ ev \notin listeners
  /\ listeners' = listeners \cup {ev}
  /\ UNCHANGED <<connected, breezSDK, config, reconnectAttempts, reconnectTimer,
                 orphanTimers, balance, cpc, dpc, initCalls, terminal, failures, lastDelay>>
  /\ UNCHANGED <<zapVars, nwcVars, opVars, cryptVars, rmVars, wasmVars, ghostVars, smVars>>

\* handleReconnection(): at the bound only an error event is emitted, below
\* it a timer is set and its handle overwrites this.reconnectTimer
HandleReconnection ==
  IF reconnectAttempts >= maxReconnectAttempts
    THEN /\ terminal' = TRUE
         /\ UNCHANGED <<reconnectAttempts, reconnectTimer, orphanTimers, lastDelay>>
    ELSE /\ reconnectAttempts' = reconnectAttempts + 1
         /\ lastDelay' = Delay(reconnectAttempts')
         /\ reconnectTimer' = "pending"
         /\ orphanTimers' = TimersPending
         /\ UNCHANGED terminal

\* the catch block of connect(): the call ends by throwing; when the emit of
\* the 'error' event throws, handleReconnection() is not reached
ConnectCatch(c) ==
  /\ connected' = FALSE
  /\ failures' = Min(failures + 1, maxReconnectAttempts + 1)
  /\ IF EmitErrorThrows
       THEN UNCHANGED <<reconnectAttempts, reconnectTimer, orphanTimers, lastDelay, terminal>>
       ELSE HandleReconnection
  /\ cpc' = [cpc EXCEPT ![c] = "free"]
  /\ UNCHANGED <<breezSDK, balance, initCalls>>

\* the guard of connect(): an already connected service returns at once
ConnectReturnsEarly == connected

\* connect(config) up to its first await, the import of the loader
ConnectBody(c) ==
  IF ConnectReturnsEarly
    THEN UNCHANGED <<config, cpc>>
    ELSE /\ config' = "cfg"
         /\ cpc' = [cpc EXCEPT ![c] = "import"]

\* the application calls connect(config)
Connect(c) ==
  /\ cpc[c] = "free"
  /\ TimersPending + InFlight < MaxTimers
  /\ ConnectBody(c)
  /\ terminal' = (terminal /\ ConnectReturnsEarly)
  /\ quiet' = FALSE
  /\ UNCHANGED <<connected, breezSDK, reconnectAttempts, reconnectTimer, orphanTimers,
                 balance, dpc, initCalls, listeners, failures, lastDelay>>
  /\ UNCHANGED <<zapVars, nwcVars, opVars, cryptVars, rmVars, wasmVars, smVars>>

\* a reconnection timer fires and calls connect(this.config)
ReconnectTimerFires(c) ==
  /\ cpc[c] = "free"
  /\ \/ /\ reconnectTimer = "pending"
        /\ reconnectTimer' = "fired"
        /\ UNCHANGED orphanTimers
     \/ /\ orphanTimers > 0
        /\ orphanTimers' = orphanTimers - 1
        /\ UNCHANGED reconnectTimer
  /\ ConnectBody(c)
  /\ UNCHANGED <<connected, breezSDK, reconnectAttempts, balance, dpc, initCalls,
                 listeners, terminal, failures, lastDelay>>
  /\ UNCHANGED <<zapVars, nwcVars, opVars, cryptVars, rmVars, wasmVars, ghostVars, smVars>>

\* the import settled; initBreezSDK is called
ConnectImport(c) ==
  /\ cpc[c] = "import"
  /\ \E ok \in BOOLEAN :
       IF ok
         THEN /\ initCalls' = Min(initCalls + 1, MaxInitCount)
              /\ cpc' = [cpc EXCEPT ![c] = "init"]
              /\ UNCHANGED <<connected, breezSDK, reconnectAttempts, reconnectTimer,
                             orphanTimers, balance, terminal, failures, lastDelay>>
         ELSE ConnectCatch(c)
  /\ UNCHANGED <<config, dpc, listeners>>
  /\ UNCHANGED <<zapVars, nwcVars, opVars, cryptVars, rmVars, wasmVars, ghostVars, smVars>>

\* initBreezSDK settled; on success the service is connected and the first
\* balance refresh awaits nodeInfo()
ConnectInit(c) ==
  /\ cpc[c] = "init"
  /\ \E ok \in BOOLEAN :
       IF ok
         THEN /\ breezSDK' = "sdk"
              /\ connected' = TRUE
              /\ reconnectAttempts' = 0
              /\ failures' = 0
              /\ lastDelay' = 0
              /\ cpc' = [cpc EXCEPT ![c] = "refresh"]
              /\ UNCHANGED <<reconnectTimer, orphanTimers, balance, initCalls, terminal>>
         ELSE ConnectCatch(c)
  /\ UNCHANGED <<config, dpc, listeners>>
  /\ UNCHANGED <<zapVars, nwcVars, opVars, cryptVars, rmVars, wasmVars, ghostVars, smVars>>

\* nodeInfo() of the first refresh settled. refreshBalance() swallows the
\* failure of getBalance() unless its own emit of 'error' throws, and then
\* connect() ends in its catch block
ConnectRefresh(c) ==
  /\ cpc[c] = "refresh"
  /\ \E ok \in BOOLEAN, b \in Balances :
       IF ok
         THEN /\ balance' = b
              /\ cpc' = [cpc EXCEPT ![c] = "free"]
              /\ UNCHANGED <<connected, breezSDK, reconnectAttempts, reconnectTimer,
                             orphanTimers, initCalls, terminal, failures, lastDelay>>
         ELSE IF EmitErrorThrows
           THEN ConnectCatch(c)
           ELSE /\ cpc' = [cpc EXCEPT ![c] = "free"]
                /\ UNCHANGED <<connected, breezSDK, reconnectAttempts, reconnectTimer,
                               orphanTimers, balance, initCalls, terminal, failures,
                               lastDelay>>
  /\ UNCHANGED <<config, dpc, listeners>>
  /\ UNCHANGED <<zapVars, nwcVars, opVars, cryptVars, rmVars, wasmVars, ghostVars, smVars>>

\* the assignments of disconnect() after the engine was released, and the
\* removeAllListeners() that follows them
DisconnectFinish ==
  /\ connected' = FALSE
  /\ breezSDK' = "null"
  /\ balance' = 0
  /\ reconnectAttempts' = 0
  /\ failures' = 0
  /\ lastDelay' = 0
  /\ listeners' = {}

\* the application calls disconnect(): a service that is not connected returns
\* at once, otherwise the timer is cleared and the engine's disconnect awaited
Disconnect ==
  /\ dpc # "engine"
  /\ initCalls' = 0
  /\ IF ~connected
       THEN /\ dpc' = "noop"
            /\ UNCHANGED <<connected, breezSDK, reconnectAttempts, reconnectTimer, balance,
                           listeners, failures, lastDelay>>
       ELSE /\ reconnectTimer' = "null"
            /\ \E hasDisconnect \in BOOLEAN :
                 IF breezSDK = "sdk" /\ hasDisconnect
                   THEN /\ dpc' = "engine"
                        /\ UNCHANGED <<connected, breezSDK, reconnectAttempts, balance,
                                       listeners, failures, lastDelay>>
                   ELSE /\ DisconnectFinish
                        /\ dpc' = "resolved"
  /\ quiet' = IF dpc' = "engine" THEN quiet ELSE InFlight = 0
  /\ UNCHANGED <<config, orphanTimers, cpc, terminal>>
  /\ UNCHANGED <<zapVars, nwcVars, opVars, cryptVars, rmVars, wasmVars, smVars>>

\* the engine's disconnect() settled
DisconnectEngine ==
  /\ dpc = "engine"
  /\ \E ok \in BOOLEAN :
       IF ok
         THEN DisconnectFinish /\ initCalls' = 0 /\ dpc' = "resolved"
         ELSE /\ dpc' = "rejected"
              /\ UNCHANGED <<connected, breezSDK, balance, reconnectAttempts, initCalls,
                             listeners, failures, lastDelay>>
  /\ quiet' = IF dpc' = "resolved" THEN InFlight = 0 ELSE quiet
  /\ UNCHANGED <<config, reconnectTimer, orphanTimers, cpc, terminal>>
  /\ UNCHANGED <<zapVars, nwcVars, opVars, cryptVars, rmVars, wasmVars, smVars>>

BreezNext ==
  \/ \E ev \in ListenerEvents : On(ev)
  \/ \E c \in Calls : Connect(c)
  \/ \E c \in Calls : ReconnectTimerFires(c)
  \/ \E c \in Calls : ConnectImport(c)
  \/ \E c \in Calls : ConnectInit(c)
  \/ \E c \in Calls : ConnectRefresh(c)
  \/ Disconnect
  \/ DisconnectEngine

BreezSpec == Init /\ [][BreezNext]_vars

\* ------------------------------------- BreezService: the other methods
\* One call at a time of payInvoice, createInvoice, getBalance or
\* refreshBalance, or one engine callback, interleaved with connect() and
\* disconnect(). op records what the call did: the engine methods it called,
\* the events it emitted, and how it ended.
svcFrame == <<connected, breezSDK, config, reconnectAttempts, reconnectTimer, orphanTimers,
              cpc, dpc, initCalls, listeners, terminal, failures, lastDelay>>

\* the guard every method starts with: this.connected && this.breezSDK
Usable == connected /\ breezSDK # "null"

OpFree == op.pc \in {"idle", "done"}

NewOp(name, arg) ==
  [name |-> name, pc |-> "run", arg |-> arg, engine |-> <<>>, emitted |-> <<>>,
   outcome |-> "none", value |-> "none", conn |-> Usable]

Emit(o, ev) == [o EXCEPT !.emitted = Append(@, ev)]
EngineCall(o, fn, arg) ==
  [o EXCEPT !.engine = Append(@, [fn |-> fn, arg |-> arg]), !.pc = fn]
Finish(o, outcome, value) == [o EXCEPT !.pc = "done", !.outcome = outcome, !.value = value]

\* the catch block of a method: emit 'error', then throw
Rejected(o) == Finish(Emit(o, "error"), "rejected", "none")

\* the catch block of refreshBalance() after getBalance() failed and emitted
\* its own 'error': one more 'error'; the method returns normally unless that
\* emit throws
RefreshCatch(o) == Emit(Emit(o, "error"), "error")
RefreshBalanceRejects(ok) == ~ok /\ EmitErrorThrows

\* what follows the refreshBalance() made by o, which fetched the balance (ok)
\* or failed to
AfterRefresh(o, ok) ==
  CASE o.name = "refreshBalance" ->
         Finish(o, IF RefreshBalanceRejects(ok) THEN "rejected" ELSE "resolved", "undefined")
    [] o.name = "payInvoice" ->
         IF RefreshBalanceRejects(ok) THEN Rejected(o) ELSE Finish(o, "resolved", "paid")
    [] o.name = "event" -> Finish(o, "resolved", "undefined")

\* getBalance() failed, called directly or by refreshBalance()
BalanceFailed(o) ==
  IF o.name = "getBalance" THEN Rejected(o) ELSE AfterRefresh(RefreshCatch(o), FALSE)

\* getBalance() up to its await of nodeInfo()
BeginGetBalance(o) ==
  IF Usable THEN EngineCall(o, "nodeInfo", "none") ELSE BalanceFailed(o)

\* the application calls getBalance()
GetBalance ==
  /\ OpFree
  /\ op' = BeginGetBalance(NewOp("getBalance", "none"))
  /\ UNCHANGED <<balance, svcFrame>>
  /\ UNCHANGED <<zapVars, nwcVars, cryptVars, rmVars, wasmVars, ghostVars, smVars>>

\* the application calls refreshBalance()
RefreshBalance ==
  /\ OpFree
  /\ op' = BeginGetBalance(NewOp("refreshBalance", "none"))
  /\ UNCHANGED <<balance, svcFrame>>
  /\ UNCHANGED <<zapVars, nwcVars, cryptVars, rmVars, wasmVars, ghostVars, smVars>>

\* nodeInfo() settled: balanceInfo?.channelsBalanceMsat || 0 is cached and,
\* inside refreshBalance(), 'balance_updated' is emitted
OpNodeInfo ==
  /\ op.pc = "nodeInfo"
  /\ \E ok \in BOOLEAN, b \in Balances :
       IF ok
         THEN /\ balance' = b
              /\ op' = IF op.name = "getBalance"
                         THEN Finish(op, "resolved", "balance")
                         ELSE AfterRefresh(Emit(op, "balance_updated"), TRUE)
         ELSE /\ op' = BalanceFailed(op)
              /\ UNCHANGED balance
  /\ UNCHANGED svcFrame
  /\ UNCHANGED <<zapVars, nwcVars, cryptVars, rmVars, wasmVars, ghostVars, smVars>>

\* inputs of payInvoice
AddressBase58 == Str(<<"1">> \o [k \in 1..20 |-> "A"])
PayInputs ==
  {Undefined, Str(<<>>), Str(<<" ">>), InvoiceBolt11,
   Str(<<" ", "L", "N", "T", "B", "1", "x", " ">>),
   Str(<<"l", "n", "b", "c">>),
   Str(<<"l", "n", "u", "r", "l", "1", "a">>),
   Str(<<"b", "c", "1", "x">>), AddressBase58, InvoiceText}

\* the application calls payInvoice(invoice)
PayInvoice(invoice) ==
  /\ OpFree
  /\ LET o == NewOp("payInvoice", invoice)
     IN op' = IF ServicePayInvoice(Usable, invoice, "rejects").engine = "not_called"
                THEN Rejected(o)
                ELSE EngineCall(o, "payInvoice", invoice)
  /\ UNCHANGED <<balance, svcFrame>>
  /\ UNCHANGED <<zapVars, nwcVars, cryptVars, rmVars, wasmVars, ghostVars, smVars>>

\* the engine's payInvoice settled; after a payment the balance is refreshed
OpPayInvoice ==
  /\ op.pc = "payInvoice"
  /\ \E ok \in BOOLEAN :
       op' = IF ok THEN BeginGetBalance(op) ELSE Rejected(op)
  /\ UNCHANGED <<balance, svcFrame>>
  /\ UNCHANGED <<zapVars, nwcVars, cryptVars, rmVars, wasmVars, ghostVars, smVars>>

\* amounts of createInvoice: NaN, the infinities, and numbers given by
\* amountSats * 1000 in tenths of a millisatoshi
Num(tenths) == [t |-> "number", tenths |-> tenths]
NaN == [t |-> "NaN", tenths |-> 0]
Infinity == [t |-> "Infinity", tenths |-> 0]
NegInfinity == [t |-> "-Infinity", tenths |-> 0]
Amounts ==
  {NaN, Infinity, NegInfinity, Num(-10000), Num(0), Num(4), Num(6), Num(10004),
   Num(25000)}
Descriptions == {Undefined, Str(<<>>), Str(<<"x">>)}

isFinite(a) == a.t = "number"
MathRound_Truncates(tenths) == tenths \div 10

\* Math.round: to the nearest integer, halves upwards
MathRound(tenths) == (tenths + 5) \div 10

\* the application calls createInvoice(amountSats, description)
CreateInvoice(amountSats, description) ==
  /\ OpFree
  /\ LET o == NewOp("createInvoice", [amountSats |-> amountSats, description |-> description])
     IN op' = IF ~Usable THEN Rejected(o)
              ELSE IF ~isFinite(amountSats) \/ amountSats.tenths <= 0 THEN Rejected(o)
              ELSE IF ~Truthy(description) THEN Rejected(o)
              ELSE EngineCall(o, "receivePayment",
                              [amountMsat |-> MathRound(amountSats.tenths),
                               description |-> description])
  /\ UNCHANGED <<balance, svcFrame>>
  /\ UNCHANGED <<zapVars, nwcVars, cryptVars, rmVars, wasmVars, ghostVars, smVars>>

\* the engine's receivePayment settled
OpReceivePayment ==
  /\ op.pc = "receivePayment"
  /\ \E ok \in BOOLEAN :
       op' = IF ok THEN Finish(op, "resolved", "invoice") ELSE Rejected(op)
  /\ UNCHANGED <<balance, svcFrame>>
  /\ UNCHANGED <<zapVars, nwcVars, cryptVars, rmVars, wasmVars, ghostVars, smVars>>

\* engine callbacks registered by setupEventListeners() and their stable names
EngineEvents == {"paymentReceived", "paymentSent", "paymentFailed", "invoicePaid"}
StableName(ev) ==
  CASE ev = "paymentReceived" -> "payment_received"
    [] ev = "paymentSent" -> "payment_sent"
    [] ev = "paymentFailed" -> "payment_failed"
    [] ev = "invoicePaid" -> "invoice_paid"
RefreshesBalance_Always(ev) == TRUE

RefreshesBalance(ev) == ev # "paymentFailed"

\* the engine calls one of the registered callbacks
EngineEvent(ev) ==
  /\ OpFree
  /\ breezSDK = "sdk"
  /\ LET o == Emit(NewOp("event", ev), StableName(ev))
     IN op' = IF RefreshesBalance(ev)
                THEN BeginGetBalance(o)
                ELSE Finish(o, "resolved", "undefined")
  /\ UNCHANGED <<balance, svcFrame>>
  /\ UNCHANGED <<zapVars, nwcVars, cryptVars, rmVars, wasmVars, ghostVars, smVars>>

\* the service at rest, as the application finds it when it calls a method:
\* never connected, or connected by one successful connect(); with any
\* listeners registered
ServiceInit ==
  /\ ZapInit
  /\ OpInit
  /\ CryptInit
  /\ ReceiveInit
  /\ WasmInit
  /\ SendInit
  /\ reconnectAttempts = 0
  /\ reconnectTimer = "null"
  /\ orphanTimers = 0
  /\ cpc = [c \in Calls |-> "free"]
  /\ dpc = "idle"
  /\ terminal = FALSE
  /\ failures = 0
  /\ lastDelay = 0
  /\ quiet = FALSE
  /\ listeners \in SUBSET ListenerEvents
  /\ \/ /\ connected = FALSE /\ breezSDK = "null" /\ config = "null"
        /\ initCalls = 0 /\ balance = 0
     \/ /\ connected = TRUE /\ breezSDK = "sdk" /\ config = "cfg"
        /\ initCalls = 1 /\ balance \in Balances

ServiceNext ==
  \/ \E ev \in ListenerEvents : On(ev)
  \/ Disconnect
  \/ DisconnectEngine
  \/ GetBalance
  \/ RefreshBalance
  \/ OpNodeInfo
  \/ \E invoice \in PayInputs : PayInvoice(invoice)
  \/ OpPayInvoice
  \/ \E a \in Amounts, d \in Descriptions : CreateInvoice(a, d)
  \/ OpReceivePayment
  \/ \E ev \in EngineEvents : EngineEvent(ev)

ServiceSpec == ServiceInit /\ [][ServiceNext]_vars

\* ------------------------------------ mnemonic encryption: operations
\* the application encrypts a mnemonic under a password and stores the record
EncryptMnemonic(m, pass, c, saltFill, nonceFill) ==
  /\ epc = "idle"
  /\ mnemonic' = m
  /\ password' = pass
  /\ iterations' = c
  /\ encrypted' = encryptMnemonic(m, pass, c, randomBytes(saltLength, saltFill),
                                  randomBytes(nonceLength, nonceFill))
  /\ epc' = IF encrypted'.threw THEN "failed" ELSE "encrypted"
  /\ altered' = "no"
  /\ supplied' = <<>>
  /\ decrypted' = NoText
  /\ UNCHANGED <<zapVars, nwcVars, breezVars, opVars, rmVars, wasmVars, ghostVars, smVars>>

Fields == {"ciphertext", "salt", "nonce", "nonceLength"}
\* base64 text whose first character was replaced by the next of the alphabet
NextChar(t) == [t EXCEPT ![1] = (t[1] + 1) % 64]
\* the record after damage to one field; "nonceLength" cuts the nonce to 21 bytes
Corrupted(data, field) ==
  IF field = "ciphertext" THEN [data EXCEPT !.ciphertext = NextChar(data.ciphertext)]
  ELSE IF field = "salt" THEN [data EXCEPT !.salt = NextChar(data.salt)]
  ELSE IF field = "nonce" THEN [data EXCEPT !.nonce = NextChar(data.nonce)]
  ELSE [data EXCEPT !.nonce = SubSeq(data.nonce, 1, Len(data.nonce) - 4)]

\* the stored record is damaged before it is read back
Corrupt(field) ==
  /\ epc = "encrypted"
  /\ altered = "no"
  /\ encrypted' = Corrupted(encrypted, field)
  /\ altered' = field
  /\ UNCHANGED <<epc, mnemonic, password, iterations, supplied, decrypted>>
  /\ UNCHANGED <<zapVars, nwcVars, breezVars, opVars, rmVars, wasmVars, ghostVars, smVars>>

\* the application decrypts the stored record with a password and the same options
DecryptMnemonic(pass) ==
  /\ epc = "encrypted"
  /\ supplied' = pass
  /\ decrypted' = decryptMnemonic(encrypted, pass, iterations)
  /\ epc' = "decrypted"
  /\ UNCHANGED <<mnemonic, password, iterations, encrypted, altered>>
  /\ UNCHANGED <<zapVars, nwcVars, breezVars, opVars, rmVars, wasmVars, ghostVars, smVars>>

CryptNext ==
  \/ \E m \in Mnemonics, pass \in Passwords, c \in Iterations, s \in RandomFill,
        n \in RandomFill : EncryptMnemonic(m, pass, c, s, n)
  \/ \E field \in Fields : Corrupt(field)
  \/ \E pass \in Passwords : DecryptMnemonic(pass)

CryptSpec == Init /\ [][CryptNext]_vars

\* ------------------------------------------------------- ReceiveModal
\* React applies state updates at the next render; an update made in a click
\* handler is rendered, and its effects are run, before the handler's task
\* ends, an update made in the continuation of an await is rendered in a
\* later task.
Others == <<zapVars, nwcVars, breezVars, opVars, cryptVars, wasmVars, ghostVars, smVars>>

\* the polling effect: clear the timer of the previous run, then
\* setInterval(..., 2000) if an invoice is held and isPolling is set
PollingWanted(view) == view.invoice # "null" /\ view.isPolling
RunPollingEffect(view) ==
  /\ effectTimer' = IF PollingWanted(view) THEN 1 ELSE 0
  /\ intervals' = (intervals - effectTimer) + effectTimer'

\* handleGenerate up to its await
HandleGenerate ==
  /\ rm.mounted /\ rm.view.invoice = "null" /\ ~rm.view.isGenerating
  /\ issued < MaxInvoices
  /\ rm' = [rm EXCEPT !.view.isGenerating = TRUE]
  /\ rmNext' = [rmNext EXCEPT !.isGenerating = TRUE]
  /\ creating' = TRUE
  /\ UNCHANGED <<intervals, effectTimer, polls, issued, paidSeen>>
  /\ UNCHANGED Others

\* createInvoice settled: the rest of handleGenerate
GenerateSettles(ok) ==
  /\ creating
  /\ creating' = FALSE
  /\ issued' = IF ok THEN issued + 1 ELSE issued
  /\ IF rm.mounted
       THEN /\ rmNext' = IF ok THEN Shown("pending", issued', TRUE, FALSE)
                               ELSE [rmNext EXCEPT !.isGenerating = FALSE]
            /\ paidSeen' = (paidSeen /\ ~ok)
       ELSE UNCHANGED <<rmNext, paidSeen>>
  /\ UNCHANGED <<rm, intervals, effectTimer, polls>>
  /\ UNCHANGED Others

\* a render caused by updates queued outside a click handler, with its effects
Render ==
  /\ rm.mounted /\ rmNext # rm.view
  /\ rm' = [rm EXCEPT !.view = rmNext]
  /\ RunPollingEffect(rmNext)
  /\ UNCHANGED <<rmNext, polls, issued, creating, paidSeen>>
  /\ UNCHANGED Others

InFlightPolls == SumSeq(polls)

\* the interval fires: pollInvoiceStatus(invoice.paymentHash) of the render
\* that made the timer, up to its await
IntervalTick ==
  /\ intervals > 0
  /\ InFlightPolls < MaxPolls
  /\ polls' = [polls EXCEPT ![rm.view.hash] = @ + 1]
  /\ UNCHANGED <<rm, rmNext, intervals, effectTimer, issued, creating, paidSeen>>
  /\ UNCHANGED Others

PollAnswers == {"pending", "paid", "throws"}
\* getInvoiceStatus(hash) settled: the rest of pollInvoiceStatus
PollSettles(hash, answer) ==
  /\ polls[hash] > 0
  /\ polls' = [polls EXCEPT ![hash] = @ - 1]
  /\ IF answer = "paid" /\ rm.mounted
       THEN /\ rmNext' = [rmNext EXCEPT
                            !.invoice = IF @ = "null" THEN "null" ELSE "paid",
                            !.isPolling = FALSE]
            /\ paidSeen' = TRUE
       ELSE UNCHANGED <<rmNext, paidSeen>>
  /\ UNCHANGED <<rm, intervals, effectTimer, issued, creating>>
  /\ UNCHANGED Others

\* handleReset
HandleReset ==
  /\ rm.mounted /\ rm.view.invoice # "null"
  /\ rmNext' = [rmNext EXCEPT !.invoice = "null", !.hash = 0, !.isPolling = FALSE]
  /\ rm' = [rm EXCEPT !.view = rmNext']
  /\ RunPollingEffect(rmNext')
  /\ paidSeen' = FALSE
  /\ UNCHANGED <<polls, issued, creating>>
  /\ UNCHANGED Others

\* onClose: the owner removes the modal, the cleanup of the effect runs
Unmount ==
  /\ rm.mounted
  /\ rm' = [rm EXCEPT !.mounted = FALSE]
  /\ effectTimer' = 0
  /\ intervals' = intervals - effectTimer
  /\ UNCHANGED <<rmNext, polls, issued, creating, paidSeen>>
  /\ UNCHANGED Others

ReceiveNext ==
  \/ HandleGenerate
  \/ \E ok \in BOOLEAN : GenerateSettles(ok)
  \/ Render
  \/ IntervalTick
  \/ \E hash \in Hashes, answer \in PollAnswers : PollSettles(hash, answer)
  \/ HandleReset
  \/ Unmount

ReceiveSpec == Init /\ [][ReceiveNext]_vars

\* ------------------------------------------------------- wasmLoader
NotWasm == <<zapVars, nwcVars, breezVars, opVars, cryptVars, rmVars, ghostVars, smVars>>

\* initBreezWasm up to its first await
InitBreezWasm(c) ==
  /\ wpc[c] \in {"idle", "returned", "threw"}
  /\ wpc' = [wpc EXCEPT ![c] =
              IF breezWasmInitialized /\ breezWasmInstance # "null" THEN "returned"
              ELSE "import"]
  /\ UNCHANGED <<breezWasmInitialized, breezWasmInstance, initRuns>>
  /\ UNCHANGED NotWasm

\* the catch block of initBreezWasm
WasmCatch(c) ==
  /\ breezWasmInitialized' = FALSE
  /\ breezWasmInstance' = "null"
  /\ wpc' = [wpc EXCEPT ![c] = "threw"]
  /\ initRuns' = 0

\* the dynamic import settled; on success breezModule.init() is called
WasmImported(c, ok) ==
  /\ wpc[c] = "import"
  /\ initRuns < MaxInitRuns
  /\ IF ok
       THEN /\ wpc' = [wpc EXCEPT ![c] = "init"]
            /\ initRuns' = initRuns + 1
            /\ UNCHANGED <<breezWasmInitialized, breezWasmInstance>>
       ELSE WasmCatch(c)
  /\ UNCHANGED NotWasm

\* breezModule.init() settled
WasmInitSettled(c, ok) ==
  /\ wpc[c] = "init"
  /\ IF ok
       THEN /\ breezWasmInstance' = "module"
            /\ breezWasmInitialized' = TRUE
            /\ wpc' = [wpc EXCEPT ![c] = "returned"]
            /\ UNCHANGED initRuns
       ELSE WasmCatch(c)
  /\ UNCHANGED NotWasm

ResetBreezWasm ==
  /\ breezWasmInitialized' = FALSE
  /\ breezWasmInstance' = "null"
  /\ initRuns' = 0
  /\ UNCHANGED wpc
  /\ UNCHANGED NotWasm

WasmNext ==
  \/ \E c \in WasmCallers : InitBreezWasm(c)
  \/ \E c \in WasmCallers, ok \in BOOLEAN : WasmImported(c, ok)
  \/ \E c \in WasmCallers, ok \in BOOLEAN : WasmInitSettled(c, ok)
  \/ ResetBreezWasm

WasmSpec == Init /\ [][WasmNext]_vars

\* ------------------------------------------------------- SendModal
NotSend == <<zapVars, nwcVars, breezVars, opVars, cryptVars, rmVars, wasmVars, ghostVars>>

SendInputs == {<<>>, <<" ">>, InvoiceBolt11.s, <<"a", "@", "b">>}
SendAmounts == {NoAmount, <<0>>, <<2>>, <<5>>, <<20>>}

\* a Review button that does not test the balance
canProceed_NoBalanceTest(inv, amt, bal) ==
  /\ Trim(inv) # <<>>
  /\ amt # NoAmount /\ amt[1] # 0 /\ ~(amt[1] <= 0)

\* canProceed()
canProceed(inv, amt, bal) ==
  /\ Trim(inv) # <<>>
  /\ amt # NoAmount /\ amt[1] # 0 /\ ~(amt[1] <= 0)
  /\ ~(amt[1] > bal)

\* the owner passes a new balance
BalanceChanges(b) ==
  /\ sm.open
  /\ b # balanceSats
  /\ balanceSats' = b
  /\ UNCHANGED <<sm, payCalls>>
  /\ UNCHANGED NotSend

\* the user edits the fields of the form view
EditForm(inv, amt) ==
  /\ sm.open /\ sm.step = "form"
  /\ sm' = [sm EXCEPT !.invoiceOrAddress = inv, !.amountSats = amt]
  /\ sm' # sm
  /\ UNCHANGED <<balanceSats, payCalls>>
  /\ UNCHANGED NotSend

\* the Review button: goToConfirm()
GoToConfirm ==
  /\ sm.open /\ sm.step = "form"
  /\ canProceed(sm.invoiceOrAddress, sm.amountSats, balanceSats)
  /\ sm' = [sm EXCEPT !.step = "confirm"]
  /\ UNCHANGED <<balanceSats, payCalls>>
  /\ UNCHANGED NotSend

\* the Back buttons of the confirm and error views
BackToForm ==
  /\ sm.open /\ sm.step \in {"confirm", "error"}
  /\ sm' = [sm EXCEPT !.step = "form"]
  /\ UNCHANGED <<balanceSats, payCalls>>
  /\ UNCHANGED NotSend

\* the Confirm-and-Pay and Retry buttons: submitPayment() up to its await
SubmitPayment ==
  /\ sm.open /\ sm.step \in {"confirm", "error"}
  /\ sm' = [sm EXCEPT !.step = "sending"]
  /\ payCalls' = payCalls + 1
  /\ UNCHANGED balanceSats
  /\ UNCHANGED NotSend

\* payInvoice settled: the rest of submitPayment()
PaymentSettles(ok) ==
  /\ payCalls > 0
  /\ payCalls' = payCalls - 1
  /\ sm' = [sm EXCEPT !.step = IF ok THEN "success" ELSE "error"]
  /\ UNCHANGED balanceSats
  /\ UNCHANGED NotSend

\* closeAndReset(): reset(), then the owner removes the modal
CloseAndReset ==
  /\ sm.open
  /\ sm' = [open |-> FALSE, step |-> "form", invoiceOrAddress |-> <<>>, amountSats |-> NoAmount]
  /\ UNCHANGED <<balanceSats, payCalls>>
  /\ UNCHANGED NotSend

SendNext ==
  \/ \E b \in BalanceValues : BalanceChanges(b)
  \/ \E inv \in SendInputs, amt \in SendAmounts : EditForm(inv, amt)
  \/ GoToConfirm
  \/ BackToForm
  \/ SubmitPayment
  \/ \E ok \in BOOLEAN : PaymentSettles(ok)
  \/ CloseAndReset

SendSpec == Init /\ [][SendNext]_vars




\* ----------------------------------------------- zapOverNWC on its own
\* the state in which zapNote has just called zapOverNWC with the invoice
NwcInit ==
  /\ zpc = "nwc"
  /\ zin = [useBreez |-> FALSE, nwc |-> TRUE]
  /\ endpoint = "ok"
  /\ signedEvent = "signed"
  /\ pr = InvoiceBolt11
  /\ breezPaid = "none"
  /\ zres = NoResult
  /\ calls = <<Call("fetchCallback", Undefined), Call("zapOverNWC", InvoiceBolt11)>>
  /\ settled = {}
  /\ lastZapError = NoZapError
  /\ npc = "decrypt" /\ nrel = 0 /\ idx = 0
  /\ opened = [i \in Relays |-> FALSE]
  /\ closeCount = [i \in Relays |-> 0]
  /\ promise = [i \in Relays |-> "none"]
  /\ resolved = [i \in Relays |-> FALSE]
  /\ timer = [i \in Relays |-> FALSE]
  /\ result = FALSE
  /\ raceWinner = 0
  /\ nwcRet = FALSE
  /\ decided = [i \in Relays |-> Undecided]
  /\ firstDef = "none"
  /\ anyEvent = FALSE
  /\ BreezInit
  /\ OpInit
  /\ CryptInit
  /\ ReceiveInit
  /\ WasmInit
  /\ SendInit

NwcNext ==
  \/ NwcDecrypt
  \/ NwcConnect
  \/ NwcPublish
  \/ \E i \in Relays : NwcEvent(i)
  \/ \E i \in Relays : NwcTimeout(i)
  \/ NwcRace
  \/ ZapNwcReturned

NwcSpec == NwcInit /\ [][NwcNext]_vars

\* the event loop runs every ready continuation and every timer that is due
FairNwcSpec ==
  /\ NwcSpec
  /\ WF_vars(NwcDecrypt \/ NwcConnect \/ NwcPublish \/ NwcRace \/ ZapNwcReturned)
  /\ \A i \in Relays : WF_vars(NwcTimeout(i))

Next ==
  \/ ZapStart
  \/ ZapEndpoint
  \/ ZapSign
  \/ ZapFetch
  \/ ZapBreez
  \/ ZapEnableWebLn
  \/ ZapSendPayment
  \/ NwcDecrypt
  \/ NwcConnect
  \/ NwcPublish
  \/ \E i \in Relays : NwcEvent(i)
  \/ \E i \in Relays : NwcTimeout(i)
  \/ NwcRace
  \/ ZapNwcReturned

Spec == Init /\ [][Next]_vars

\* ------------------------------------------------------------------ claims
RailOf(fn) ==
  CASE fn = "payWithBreez" -> "breez"
    [] fn = "zapOverNWC" -> "nwc"
    [] fn \in {"enableWebLn", "sendPayment"} -> "webln"
    [] OTHER -> "none"

Called(fn) == \E k \in 1..Len(calls) : calls[k].fn = fn
NwcReturned == npc \in {"done", "returned"}
RelayError == \E i \in Relays : decided[i].kind = "error"

\* C1: once a rail has settled the invoice, no other rail is asked to pay
\* it: every rail that settled is the last rail the invocation called.
C1_SingleRail ==
  \A r \in settled : calls # <<>> /\ RailOf(calls[Len(calls)].fn) = r

\* C2: when payWithBreez reports success the routine has returned success
\* with the signed zap request and called neither zapOverNWC nor WebLN.
C2_BreezSuccessStops ==
  breezPaid = "true" =>
    /\ zpc = "done"
    /\ zres = [success |-> TRUE, event |-> "signed"]
    /\ ~Called("zapOverNWC") /\ ~Called("enableWebLn") /\ ~Called("sendPayment")

C2_Witness == breezPaid = "true" /\ zin.nwc /\ zpc = "done"

C4_NoEndpointNoRail ==
  endpoint \in {"no_address", "unresolved"} =>
    /\ zpc = "done"
    /\ zres = Failure
    /\ calls = <<>>

C4_Witness == endpoint = "unresolved" /\ zpc = "done" /\ zin.useBreez

\* C5: a callback answer without an invoice aborts the invocation before any
\* rail is called; no rail is called with an undefined invoice.
C5_NoRailWithoutInvoice ==
  pr = Undefined => \A k \in 1..Len(calls) : calls[k].fn \notin RailCalls

C7_ClosedOnce ==
  /\ \A i \in Relays : closeCount[i] <= 1 /\ (closeCount[i] = 1 => opened[i])
  /\ NwcReturned => \A i \in Relays : opened[i] => closeCount[i] = 1

C7_Witness ==
  /\ NwcReturned /\ lastZapError.msg = "zapOverNWC exception"
  /\ \A i \in Relays : opened[i]

\* C8: no relay task is decided by a response that answers another request.
C8_OnlyOwnResponse ==
  \A i \in Relays : decided[i].ref # "other"

\* C9: the value zapOverNWC returns is the first definitive relay outcome.
C9_FirstOutcomeWins ==
  (NwcReturned /\ firstDef # "none") => nwcRet = (firstDef = "success")

\* C10: between two disconnect() calls initBreezSDK is called at most once,
\* whatever the number and the interleaving of the connect() calls.
C10_InitOnce == initCalls <= 1

\* C11: reconnectAttempts never exceeds maxReconnectAttempts, and once the
\* terminal 'Max reconnection attempts reached' error was emitted no
\* reconnection timer is pending, so that no automatic connect attempt can
\* happen until the application calls connect() again.
C11_RetriesStopAtBound ==
  /\ reconnectAttempts <= maxReconnectAttempts
  /\ terminal => TimersPending = 0

\* C12: every failed connect() below the retry bound schedules a reconnection,
\* the delay of a scheduled reconnection is reconnectDelay times the number of
\* consecutive failures so far and larger than the delay scheduled before it,
\* and a successful connect resets the count to 0.
C12_LinearBackoff ==
  [][ /\ (failures' = failures + 1 /\ failures' <= maxReconnectAttempts)
           => reconnectAttempts' = reconnectAttempts + 1
      /\ reconnectAttempts' = reconnectAttempts + 1
           => /\ lastDelay' = reconnectDelay * failures'
              /\ lastDelay' > lastDelay
      /\ (connected' /\ ~connected) => reconnectAttempts' = 0 ]_vars

\* C13: a disconnect() on a service that is not connected changes no field of
\* the service and removes no listener; a disconnect() that completes on a
\* connected service leaves connected = false, no engine handle, balance 0,
\* reconnectAttempts 0, no reconnection timer pending and no listener.
C13_DisconnectEffect ==
  [][ /\ (Disconnect /\ dpc' = "noop")
           => UNCHANGED <<connected, breezSDK, config, reconnectAttempts, reconnectTimer,
                          orphanTimers, balance, listeners>>
      /\ ((Disconnect \/ DisconnectEngine) /\ dpc' = "resolved")
           => /\ ~connected' /\ breezSDK' = "null" /\ balance' = 0
              /\ reconnectAttempts' = 0 /\ listeners' = {}
              /\ TimersPending' = 0 ]_vars

\* C14: payInvoice calls the engine's payInvoice exactly when the service is
\* connected and the input classifies as a BOLT11 invoice, and then with the
\* input; otherwise the engine is not called, 'error' is emitted and the call
\* rejects. A call that returns a result has refreshed the balance before.
C14_PayInvoiceGuarded ==
  op.name = "payInvoice" =>
    LET forwards == op.conn /\ Truthy(op.arg) /\ parseInput(op.arg.s) = "bolt11"
    IN /\ forwards => /\ op.engine # <<>>
                      /\ op.engine[1] = [fn |-> "payInvoice", arg |-> op.arg]
       /\ ~forwards => /\ op.engine = <<>>
                       /\ op.pc = "done" /\ op.outcome = "rejected"
                       /\ op.emitted = <<"error">>
       /\ (op.pc = "done" /\ op.outcome = "resolved")
            => /\ forwards
               /\ \E k \in 1..Len(op.emitted) : op.emitted[k] \in {"balance_updated", "error"}
               /\ op.conn /\ Len(op.engine) = 2 => op.engine[2].fn = "nodeInfo"

C14_Witness ==
  /\ op.name = "payInvoice" /\ op.pc = "done" /\ op.outcome = "resolved"
  /\ op.arg = Str(<<" ", "L", "N", "T", "B", "1", "x", " ">>)
  /\ op.emitted = <<"balance_updated">>

\* C15: createInvoice calls the engine's receivePayment exactly when the
\* service is connected, amountSats is a finite number above 0 and the
\* description is not empty, and then once, with amountSats * 1000 rounded to
\* the nearest integer; otherwise the engine is not called, 'error' is emitted
\* and the call rejects.
C15_CreateInvoiceGuarded ==
  op.name = "createInvoice" =>
    LET a == op.arg.amountSats
        valid == /\ op.conn
                 /\ a.t = "number" /\ a.tenths > 0
                 /\ op.arg.description.t = "string" /\ op.arg.description.s # <<>>
        msat == CHOOSE n \in 0..(a.tenths \div 10 + 1) :
                  10 * n - 5 <= a.tenths /\ a.tenths < 10 * n + 5
    IN /\ valid => op.engine = <<[fn |-> "receivePayment",
                                  arg |-> [amountMsat |-> msat,
                                           description |-> op.arg.description]]>>
       /\ ~valid => /\ op.engine = <<>>
                    /\ op.pc = "done" /\ op.outcome = "rejected"
                    /\ op.emitted = <<"error">>

C15_Witness ==
  /\ op.name = "createInvoice" /\ op.pc = "done" /\ op.outcome = "resolved"
  /\ op.arg.amountSats = Num(6)
  /\ op.engine[1].arg.amountMsat = 1

\* C16: a getBalance() that cannot fetch the balance emits 'error' and
\* rejects; a refreshBalance() never rejects, and one that cannot fetch the
\* balance emits 'error', emits no 'balance_updated' and leaves the cached
\* balance as it was.
C16_BalanceErrors ==
  /\ [](((op.name = "getBalance" /\ op.pc = "done")
           => (/\ op.outcome = (IF op.value = "balance" THEN "resolved" ELSE "rejected")
               /\ (~op.conn => op.outcome = "rejected")
               /\ (op.outcome = "rejected" => op.emitted = <<"error">>)))
        /\ ((op.name = "refreshBalance" /\ op.pc = "done")
              => (/\ op.outcome = "resolved"
                  /\ (\/ op.emitted = <<"balance_updated">>
                      \/ (/\ op.emitted # <<>>
                          /\ \A k \in 1..Len(op.emitted) : op.emitted[k] = "error")))))
  /\ [][(op.name \in {"getBalance", "refreshBalance"} /\ op.pc = "nodeInfo"
          /\ op'.pc = "done" /\ op'.emitted # <<>> /\ op'.emitted[1] = "error")
         => balance' = balance]_vars

\* C17: an engine callback is re-emitted once, first, under its stable name;
\* received, sent and invoice-paid are followed by one balance refresh, while
\* payment_failed emits nothing else, calls nothing on the engine and leaves
\* the cached balance and the connection state as they were.
C17_EventRelay ==
  /\ [](op.name = "event" =>
          (/\ op.emitted # <<>>
           /\ op.emitted[1] = (CASE op.arg = "paymentReceived" -> "payment_received"
                                  [] op.arg = "paymentSent" -> "payment_sent"
                                  [] op.arg = "paymentFailed" -> "payment_failed"
                                  [] op.arg = "invoicePaid" -> "invoice_paid")
           /\ \A k \in 2..Len(op.emitted) : op.emitted[k] \in {"balance_updated", "error"}
           /\ (op.arg = "paymentFailed"
                 => op.emitted = <<"payment_failed">> /\ op.engine = <<>> /\ op.pc = "done")
           /\ (op.arg # "paymentFailed"
                 => (/\ op.conn => op.engine = <<[fn |-> "nodeInfo", arg |-> "none"]>>
                     /\ op.pc = "done" => Len(op.emitted) > 1))))
  /\ [][(op'.name = "event" /\ op'.arg = "paymentFailed"
          /\ ~(op.name = "event" /\ op.arg = "paymentFailed"))
         => UNCHANGED <<balance, connected, breezSDK>>]_vars

C17_Witness ==
  /\ op.name = "event" /\ op.arg = "invoicePaid" /\ op.pc = "done"
  /\ op.emitted = <<"invoice_paid", "balance_updated">>

\* C18: an invocation of a zap routine that has reached its payment rail
\* completes: it returns a result whose success field is a boolean.
C18_AlwaysCompletes == <>(zpc = "done" /\ zres.success \in BOOLEAN)

\* C19: when a zap invocation that got as far as resolving the endpoint has
\* ended in failure, lastZapError holds a message that was written during that
\* invocation, not an empty slot and not a message left by an earlier
\* invocation.
C19_LastErrorIsCurrent ==
  (zpc = "done" /\ ~zres.success /\ endpoint # "none")
    => (lastZapError.fresh /\ lastZapError.msg # "")

\* C20: for every non-empty mnemonic and non-empty password, decrypting what
\* encryptMnemonic produced, with the same password and the same iteration
\* count, returns exactly the original mnemonic.
C20_RoundTrip ==
  (/\ mnemonic # <<>> /\ password # <<>>
   /\ \/ epc = "failed"
      \/ epc = "decrypted" /\ altered = "no" /\ supplied = password)
    => (epc = "decrypted" /\ ~decrypted.threw /\ decrypted.text = mnemonic)

\* C21: a record produced by encryptMnemonic under password p1 and decrypted
\* with any other password p2 makes decryptMnemonic throw; it never returns a
\* string.
C21_WrongPasswordThrows ==
  (epc = "decrypted" /\ altered = "no" /\ supplied # password) => decrypted.threw

\* C22: decryptMnemonic reports a wrong password and a corrupted record
\* (altered ciphertext, altered salt, or a nonce that is not 24 bytes) with
\* the same generic error message.
C22_SameGenericMessage ==
  (/\ epc = "decrypted"
   /\ supplied # <<>>
   /\ \/ altered \in {"ciphertext", "salt", "nonceLength"}
      \/ altered = "no" /\ hmacBlock(TextEncode(supplied)) # hmacBlock(TextEncode(password)))
    => (decrypted.threw /\ decrypted.message = GenericMessage)

\* C23: in ReceiveModal at most one polling timer exists at any time, a timer
\* exists only while an invoice is displayed and pending, and no
\* getInvoiceStatus call is issued once a poll has observed 'paid' or the
\* modal was reset, closed or unmounted.
C23_PollingStops ==
  /\ [](intervals <= 1)
  /\ [](intervals > 0 => (rm.mounted /\ rm.view.invoice = "pending"))
  /\ [][(\E h \in Hashes : polls'[h] > polls[h])
         => (rm.mounted /\ rm.view.invoice = "pending" /\ ~paidSeen)]_vars

\* C24: for any sequence or overlap of initBreezWasm calls without an
\* intervening resetBreezWasm() or failure the module's init() runs at most
\* once, a call made when the module is initialized returns without
\* initializing again, and a failed initialization leaves
\* breezWasmInitialized = false and the instance null.
C24_InitOnce ==
  /\ [](initRuns <= 1)
  /\ [][\A c \in WasmCallers :
          /\ (wpc'[c] = "threw" /\ wpc[c] # "threw")
               => (~breezWasmInitialized' /\ breezWasmInstance' = "null")
          /\ (wpc[c] \in {"idle", "returned", "threw"} /\ wpc'[c] # wpc[c]
                /\ breezWasmInitialized /\ breezWasmInstance # "null")
               => wpc'[c] = "returned"]_vars

\* C25: once the invoice was handed to zapOverNWC its result is the result of
\* the invocation: WebLN is not called afterwards, whether NWC failed, timed
\* out or succeeded, and WebLN is called only in invocations without an NWC
\* credential.
C25_NwcIsTerminal ==
  /\ Called("zapOverNWC") => (zin.nwc /\ ~Called("enableWebLn") /\ ~Called("sendPayment"))
  /\ (zpc = "done" /\ Called("zapOverNWC"))
       => zres = [success |-> nwcRet, event |-> "signed"]
  /\ (Called("enableWebLn") \/ Called("sendPayment")) => ~zin.nwc

C25_Witness ==
  /\ zpc = "done" /\ Called("zapOverNWC") /\ ~zin.useBreez
  /\ ~RelayError /\ ~nwcRet /\ zres.success = FALSE

\* C26: after a disconnect() call has returned, and until the application
\* calls connect() again, the service does not become connected and
\* initBreezSDK is not called, whatever timers earlier failures scheduled.
C26_StaysDisconnected ==
  [][quiet => /\ (connected' => connected)
              /\ \A c \in Calls : ~(cpc[c] = "import" /\ cpc'[c] = "init")]_vars

\* C27: zapOverNWC returns true whenever some relay task took a pay_invoice
\* success result for the request before the function returned, whatever
\* happened on the other relays of the call.
C27_SuccessIsReturned ==
  (NwcReturned /\ \E i \in Relays : decided[i] = [ref |-> "own", kind |-> "success"])
    => nwcRet

\* C28: at most one reconnection timer is pending at any time, and a pending
\* timer is the one this.reconnectTimer refers to.
C28_OneTimer ==
  /\ TimersPending <= 1
  /\ TimersPending = 1 => reconnectTimer = "pending"

\* C29: in every state with no connect() or disconnect() call in progress
\* the service is connected if and only if it holds an engine handle.
C29_ConnectedIffHandle ==
  (InFlight = 0 /\ dpc # "engine") => (connected <=> breezSDK # "null")

\* C30: SendModal starts a payInvoice call only from step 'confirm' or
\* 'error'; 'confirm' is entered only from 'form' with a non-empty input and
\* an amount above 0 and not above balanceSats; while the step is 'sending'
\* no payInvoice call is started, at most one is in flight, and a call that
\* settles moves the step to 'success' or to 'error'.
C30_SendSteps ==
  /\ [](payCalls <= 1)
  /\ [][/\ payCalls' > payCalls
            => (sm.step \in {"confirm", "error"} /\ sm'.step = "sending")
        /\ (sm.step # "confirm" /\ sm'.step = "confirm")
            => /\ sm.step = "form"
               /\ Trim(sm.invoiceOrAddress) # <<>>
               /\ sm.amountSats # NoAmount
               /\ sm.amountSats[1] > 0 /\ sm.amountSats[1] <= balanceSats
        /\ sm.step = "sending" => payCalls' <= payCalls
        /\ payCalls' < payCalls => sm'.step \in {"success", "error"}]_vars

C30_Witness == sm.step = "success" /\ sm.open /\ payCalls = 0
====
